---- MODULE Spec2Model ----
(***************************************************************************)
(* Book tracker: the HTTP API (Express routes), the record store in its    *)
(* two forms (raw sqlite3 driver, Sequelize ORM) and the books table.      *)
(* Requests are handled concurrently: a handler suspends at every storage  *)
(* call, so every SQL statement is one atomic step and the statements of   *)
(* different requests interleave.                                          *)
(***************************************************************************)
EXTENDS Integers, Sequences, FiniteSets, TLC

\* ------------------------------------------------------------------ bounds
\* number of requests the server handles at the same time
MaxInFlight == 2
\* number of rows ever inserted into the books table
MaxBooks == 2
\* number of requests of a run that pass validation and reach the store
MaxRequests == 3

Procs == 1..MaxInFlight
BookIds == 1..MaxBooks

\* ------------------------------------------------------- JavaScript values
\* A JavaScript number: NaN, an integer n, a non-integer strictly between
\* n and n+1 (kind "frac"), or an infinity (sign in n).
JsInt(n) == [k |-> "int", n |-> n]
JsFrac(n) == [k |-> "frac", n |-> n]
JsNaN == [k |-> "nan", n |-> 0]
JsInf == [k |-> "inf", n |-> 1]

\* Number.isNaN(x)
IsNaN(x) == x.k = "nan"
\* x < c and x > c for an integer literal c (every comparison with NaN is false)
NumLt(x, c) ==
  CASE x.k = "int" -> x.n < c
    [] x.k = "frac" -> x.n < c
    [] x.k = "inf" -> x.n < 0
    [] OTHER -> FALSE
NumGt(x, c) ==
  CASE x.k = "int" -> x.n > c
    [] x.k = "frac" -> x.n >= c
    [] x.k = "inf" -> x.n > 0
    [] OTHER -> FALSE
IsInteger(x) == x.k = "int"

\* A string is a sequence of characters; a field missing from the JSON body
\* is the value undefined.
Strs == {<<>>, <<" ">>, <<"a">>, <<" ", "a", " ">>}
undefined == <<"undefined">>

\* !v for a string or undefined
Falsy(v) == v = undefined \/ v = <<>>

\* String.prototype.trim
RECURSIVE TrimStart(_)
TrimStart(s) == IF s # <<>> /\ Head(s) = " " THEN TrimStart(Tail(s)) ELSE s
RECURSIVE TrimEnd(_)
TrimEnd(s) ==
  IF s # <<>> /\ s[Len(s)] = " " THEN TrimEnd(SubSeq(s, 1, Len(s) - 1)) ELSE s
Trim(s) == TrimEnd(TrimStart(s))

\* Number(req.params.id) for the id texts of the model
IdParams == {ToString(i) : i \in BookIds} \cup {"abc", "1.5", "Infinity"}
NumberOfParam(s) ==
  CASE s = "abc" -> JsNaN
    [] s = "1.5" -> JsFrac(1)
    [] s = "Infinity" -> JsInf
    [] OTHER -> JsInt(CHOOSE i \in BookIds : ToString(i) = s)

\* req.body.rating: missing, a non-numeric string, or a JSON number
RatingBodies ==
  {[t |-> "undefined", v |-> JsNaN], [t |-> "string", v |-> JsNaN]}
    \cup {[t |-> "number", v |-> JsInt(n)] : n \in {-1, 0, 1, 2, 3, 4, 5, 7}}
    \cup {[t |-> "number", v |-> JsFrac(2)]}
ValidRatingBodies == {[t |-> "number", v |-> JsInt(n)] : n \in 1..5}
\* the (id, rating) inputs of PATCH /api/books/:id/rating: every id with every
\* rating of 1..5, and every other rating with the id "1"
RateInputs ==
  (IdParams \X ValidRatingBodies) \cup ({"1"} \X RatingBodies)
\* Number(req.body.rating)
NumberOfBody(b) == IF b.t = "number" THEN b.v ELSE JsNaN

\* ------------------------------------------------------------------ books
\* A row of the books table; createdAt is the time of the insert. NoRow: no row.
NoRow ==
  [id |-> 0, title |-> <<>>, author |-> <<>>, status |-> "NONE",
   createdAt |-> 0, rating |-> JsInt(0)]
\* A Book as the API returns it; createdAt is a text in the format fmt.
\* NoBook: null, or a response without a Book.
NoBook ==
  [id |-> 0, title |-> <<>>, author |-> <<>>, status |-> "NONE",
   createdAt |-> [fmt |-> "none", t |-> 0], rating |-> JsInt(0)]

\* useState<number | null>(null): no book is highlighted
null == 0
\* the notice of the page: none (''), 'nothing unread', or the perfect read
\* with the title of the pick
NoToast == [msg |-> "", title |-> <<>>]
NothingUnread == [msg |-> "nothing unread", title |-> <<>>]
PerfectRead(title) == [msg |-> "perfect read", title |-> title]

VARIABLES impl, rows, seq, now, req, left, crashed, applied, lastTog, idLog,
          deleted, engine, books, error, loading, mounted, net, highlightedId,
          toast, own

\* the highlight and the notice of the page
page == <<highlightedId, toast>>
\* the state of the client (the React component), the handlers of the server
\* that work on its requests (own) and the responses on their way to it (net)
client == <<books, error, loading, mounted, net, page, own>>

vars ==
  <<impl, rows, seq, now, req, left, crashed, applied, lastTog, idLog, deleted,
    engine, client>>

\* ------------------------------------------------------------ books table
\* t is the table: a function from the ids of its rows to the rows
HasRow(t, id) == id.k = "int" /\ id.n \in DOMAIN t
\* SELECT * FROM books WHERE id = ? / Book.findByPk(id)
SelectById(t, id) == IF HasRow(t, id) THEN t[id.n] ELSE NoRow

Max(S) == CHOOSE x \in S : \A y \in S : y <= x

\* Without AUTOINCREMENT a rowid is one more than the largest rowid in the table.
RowIdWithoutAutoincrement(s, t) == Max(DOMAIN t \cup {0}) + 1
\* id INTEGER PRIMARY KEY AUTOINCREMENT: one more than the largest rowid the
\* table ever held, which sqlite_sequence (s) records
NextRowId(s, t) == s + 1

NewRow(id, title, author, createdAt) ==
  [id |-> id, title |-> title, author |-> author, status |-> "UNREAD",
   createdAt |-> createdAt, rating |-> JsInt(0)]
\* INSERT INTO books (title, author, status, rating) VALUES (?, ?, 'UNREAD', 0)
SqlInsert(t, id, title, author, createdAt) ==
  [i \in DOMAIN t \cup {id} |->
     IF i = id THEN NewRow(id, title, author, createdAt) ELSE t[i]]

\* SET status = 'READ' whatever the status was
CaseAlwaysRead(status) == "READ"
\* CASE WHEN status = 'READ' THEN 'UNREAD' ELSE 'READ' END
CaseFlip(status) == IF status = "READ" THEN "UNREAD" ELSE "READ"
\* an UPDATE of the status that also stamps the row with a new createdAt
SqlToggleStampsRow(t, id) ==
  IF id.k = "int" /\ id.n \in DOMAIN t
  THEN [t EXCEPT ![id.n].status = CaseFlip(@), ![id.n].createdAt = @ + 1] ELSE t
\* UPDATE books SET status = CASE ... END WHERE id = ?
SqlToggle(t, id) ==
  IF HasRow(t, id) THEN [t EXCEPT ![id.n].status = CaseFlip(@)] ELSE t

\* const newStatus = book.status === 'READ' ? 'UNREAD' : 'READ'
NewStatus(status) == IF status = "READ" THEN "UNREAD" ELSE "READ"
\* book.update({ status }): UPDATE books SET status = ? WHERE id = ?
SqlSetStatus(t, id, status) ==
  IF HasRow(t, id) THEN [t EXCEPT ![id.n].status = status] ELSE t

\* an UPDATE that sets the rating and resets the status
SqlSetRatingResetsStatus(t, id, rating) ==
  IF id.k = "int" /\ id.n \in DOMAIN t
  THEN [t EXCEPT ![id.n].rating = rating, ![id.n].status = "UNREAD"] ELSE t
\* an UPDATE that writes the rating to no row
SqlSetRatingNoop(t, id, rating) == t
\* UPDATE books SET rating = ? WHERE id = ? (the INTEGER column of SQLite
\* keeps a non-integer number as it is)
SqlSetRating(t, id, rating) ==
  IF HasRow(t, id) THEN [t EXCEPT ![id.n].rating = rating] ELSE t

\* a DELETE that only marks the row and leaves it in the table
SqlDeleteKeepsRow(t, id) == t
\* DELETE FROM books WHERE id = ?
SqlDelete(t, id) ==
  IF HasRow(t, id) THEN [i \in DOMAIN t \ {id.n} |-> t[i]] ELSE t
\* this.changes of an UPDATE or DELETE ... WHERE id = ?
Changes(t, id) == IF HasRow(t, id) THEN 1 ELSE 0

\* mapRowToBook: the columns as they are (createdAt is the text SQLite wrote,
\* 'YYYY-MM-DD HH:MM:SS'), rating as Number(row.rating ?? 0)
MapRowToBook(row) ==
  [id |-> row.id, title |-> row.title, author |-> row.author,
   status |-> row.status, createdAt |-> [fmt |-> "sql", t |-> row.createdAt],
   rating |-> row.rating]
\* the object the ORM store builds from an instance: createdAt.toISOString()
OrmToBook(book) ==
  [id |-> book.id, title |-> book.title, author |-> book.author,
   status |-> book.status, createdAt |-> [fmt |-> "iso", t |-> book.createdAt],
   rating |-> book.rating]

\* SELECT * FROM books without ORDER BY: the rows in any order
ListOrdersUnsorted(t) ==
  {l \in [1..Cardinality(DOMAIN t) -> DOMAIN t] :
     \A i, j \in DOMAIN l : i # j => l[i] # l[j]}
\* SELECT * FROM books ORDER BY createdAt DESC: every order of the rows in
\* which createdAt never increases (rows of equal createdAt come in any order)
ListOrders(t) ==
  {l \in [1..Cardinality(DOMAIN t) -> DOMAIN t] :
     /\ \A i, j \in DOMAIN l : i # j => l[i] # l[j]
     /\ \A i, j \in DOMAIN l : i < j => t[l[i]].createdAt >= t[l[j]].createdAt}
\* rows.map(mapRowToBook) / books.map(...)
ListOf(store, t, l) ==
  [i \in DOMAIN l |->
     IF store = "raw" THEN MapRowToBook(t[l[i]]) ELSE OrmToBook(t[l[i]])]

\* --------------------------------------------------------------- requests
Idle ==
  [kind |-> "none", pc |-> "idle", id |-> JsNaN, title |-> <<>>,
   author |-> <<>>, rating |-> JsNaN, lastID |-> 0, inst |-> NoRow,
   code |-> 0, book |-> NoBook, list |-> <<>>,
   before |-> "NONE", first |-> "NONE", dirty |-> FALSE, hit |-> FALSE,
   existed |-> FALSE, gone |-> {}]

\* the request bodies of POST /api/books: one field varies, the other is "a"
CreateBodies ==
  {[title |-> s, author |-> <<"a">>] : s \in Strs \cup {undefined}}
    \cup {[title |-> <<"a">>, author |-> s] : s \in {undefined, <<" ">>}}

Init ==
  /\ impl \in {"raw", "orm"}
  /\ rows = <<>>
  /\ seq = 0
  /\ now = 0
  /\ req = [p \in Procs |-> Idle]
  /\ left = MaxRequests
  /\ crashed = FALSE
  /\ applied = [i \in BookIds |-> FALSE]
  /\ lastTog = [i \in BookIds |-> "NONE"]
  /\ deleted = {}
  /\ engine = "ok"
  /\ books = <<>>
  /\ error = ""
  /\ loading = TRUE
  /\ mounted = FALSE
  /\ net = {}
  /\ highlightedId = null
  /\ toast = NoToast
  /\ own = {}
  /\ idLog = <<>>

\* a request is taken by the lowest free handler
Free(p) ==
  /\ ~crashed
  /\ req[p].pc = "idle"
  /\ \A q \in Procs : q < p => req[q].pc # "idle"
  /\ \A q \in Procs : req[q].pc # "done"

\* handler p is at the storage call `label`, which the storage engine carries
\* out (err is null); a response that is ready is written before anything
\* else happens
At(p, label) ==
  /\ ~crashed
  /\ req[p].pc = label
  /\ label # "done" => engine = "ok" /\ \A q \in Procs : req[q].pc # "done"

\* the requests in flight, other than p, that address the same id
Overlapping(p, id) ==
  {q \in Procs \ {p} : req[q].pc # "idle" /\ req[q].kind # "list" /\ req[q].id = id}

\* the response is sent: res.status(code).json(...)
Respond(r, code, book) == [r EXCEPT !.pc = "done", !.code = code, !.book = book]

\* The request r arrives at handler p. A request that fails validation is
\* answered synchronously, before the handler yields, and touches no shared
\* state: it is taken while no other request is in flight, and does not count
\* against MaxRequests. History kept for the properties: r and the requests
\* in flight for the same id overlap (dirty); r.first is the status the row
\* had before the toggle that came last, when nothing has addressed the row
\* since; r.gone are the ids r is about (every id, for a list) whose delete
\* had been answered 204 when r arrived.
Arrive(p, r) ==
  LET over == IF r.kind \in {"toggle", "rate", "delete"}
              THEN Overlapping(p, r.id) ELSE {}
      known == r.kind \in {"toggle", "rate", "delete"} /\ r.id.k = "int"
                 /\ r.id.n \in BookIds
  IN /\ req' = [q \in Procs |->
                  IF q = p
                  THEN [r EXCEPT !.dirty = over # {},
                                 !.existed = known /\ HasRow(rows, r.id),
                                 !.first = IF known THEN lastTog[r.id.n] ELSE "NONE",
                                 !.gone = CASE r.kind = "list" -> deleted
                                            [] known -> deleted \cap {r.id.n}
                                            [] OTHER -> {}]
                  ELSE IF q \in over THEN [req[q] EXCEPT !.dirty = TRUE]
                  ELSE req[q]]
     /\ lastTog' = IF known THEN [lastTog EXCEPT ![r.id.n] = "NONE"] ELSE lastTog
     /\ r.pc # "done" => left > 0
     /\ r.pc = "done" => \A q \in Procs : req[q].pc = "idle"
     /\ left' = IF r.pc = "done" THEN left ELSE left - 1

\* the inserts that requests in flight have still to make
PendingInserts ==
  Cardinality({q \in Procs : req[q].pc \in {"insert", "orm_create"}})

\* GET /api/books
StartList(p) ==
  /\ Free(p)
  /\ Arrive(p, [Idle EXCEPT !.kind = "list", !.pc = "select_all"])
  /\ UNCHANGED <<impl, engine, deleted, idLog, rows, seq, now, crashed,
                 applied>>

\* the request's text handed on as it came
CreateArgUntrimmed(v) == v
\* String(title).trim(), String(author).trim(): what the route hands to createBook
CreateArg(v) == Trim(v)
\* title.trim(), author.trim() in the ORM store's createBook
OrmCreateValue(v) == Trim(v)

\* if (!title || !author)
CreateValid(title, author) == ~(Falsy(title) \/ Falsy(author))

\* POST /api/books: 400 unless title and author are given; else
\* createBook(String(title).trim(), String(author).trim())
StartCreate(p, body) ==
  /\ Free(p)
  /\ LET r == [Idle EXCEPT !.kind = "create", !.title = body.title,
                           !.author = body.author]
     IN IF CreateValid(body.title, body.author)
        THEN /\ seq + PendingInserts < MaxBooks
             /\ Arrive(p, [r EXCEPT !.pc = IF impl = "raw" THEN "insert"
                                                         ELSE "orm_create"])
        ELSE Arrive(p, Respond(r, 400, NoBook))
  /\ UNCHANGED <<impl, engine, deleted, idLog, rows, seq, now, crashed,
                 applied>>

\* if (Number.isNaN(id))
IdValid(id) == ~IsNaN(id)

\* PATCH /api/books/:id/toggle
StartToggle(p, idp) ==
  /\ Free(p)
  /\ LET id == NumberOfParam(idp)
         r == [Idle EXCEPT !.kind = "toggle", !.id = id]
     IN IF IdValid(id)
        THEN Arrive(p, [r EXCEPT !.pc = IF impl = "raw" THEN "toggle_update"
                                                      ELSE "find"])
        ELSE Arrive(p, Respond(r, 400, NoBook))
  /\ UNCHANGED <<impl, engine, deleted, idLog, rows, seq, now, crashed,
                 applied>>

\* if (rating > 5): the check without its lower bound
RatingAtMostFive(rating) == ~NumGt(rating, 5)
\* if (rating < 1 || rating > 5)
RatingInRange(rating) == ~(NumLt(rating, 1) \/ NumGt(rating, 5))

\* PATCH /api/books/:id/rating
StartRate(p, idp, body) ==
  /\ Free(p)
  /\ LET id == NumberOfParam(idp)
         rating == NumberOfBody(body)
         r == [Idle EXCEPT !.kind = "rate", !.id = id, !.rating = rating]
     IN IF IsNaN(id) \/ IsNaN(rating)
        THEN Arrive(p, Respond(r, 400, NoBook))
        ELSE IF ~RatingInRange(rating)
        THEN Arrive(p, Respond(r, 400, NoBook))
        ELSE Arrive(p, [r EXCEPT !.pc = IF impl = "raw" THEN "rate_update"
                                                      ELSE "find"])
  /\ UNCHANGED <<impl, engine, deleted, idLog, rows, seq, now, crashed,
                 applied>>

\* DELETE /api/books/:id
StartDelete(p, idp) ==
  /\ Free(p)
  /\ LET id == NumberOfParam(idp)
         r == [Idle EXCEPT !.kind = "delete", !.id = id]
     IN IF IdValid(id)
        THEN Arrive(p, [r EXCEPT !.pc = IF impl = "raw" THEN "delete" ELSE "find"])
        ELSE Arrive(p, Respond(r, 400, NoBook))
  /\ UNCHANGED <<impl, engine, deleted, idLog, rows, seq, now, crashed,
                 applied>>

\* History kept for the properties: the rating update of p reaches the other
\* rating requests in flight for the same id (hit)
Rated(p) ==
  [q \in Procs |->
     IF q # p /\ req[q].pc # "idle" /\ req[q].kind = "rate" /\ req[q].id = req[p].id
     THEN [req[q] EXCEPT !.hit = TRUE] ELSE req[q]]

\* ------------------------------------------------------- raw sqlite3 store
\* getAllBooks (both stores): SELECT ... ORDER BY createdAt DESC, res.json(books)
ListSelect(p) ==
  /\ At(p, "select_all")
  /\ \E l \in ListOrders(rows) :
       req' = [req EXCEPT ![p] = [Respond(@, 200, NoBook) EXCEPT !.list = ListOf(impl, rows, l)]]
  /\ UNCHANGED <<client, impl, engine, deleted, idLog, left, rows, seq, now,
                 crashed, applied, lastTog>>

\* createBook: the INSERT; createdAt defaults to CURRENT_TIMESTAMP, which is the
\* time of the insert before (now) or later
RawInsert(p) ==
  /\ At(p, "insert")
  /\ now' \in {now, now + 1}
  /\ LET id == NextRowId(seq, rows)
     IN /\ rows' = SqlInsert(rows, id, CreateArg(req[p].title), CreateArg(req[p].author), now')
        /\ seq' = id
        /\ idLog' = Append(idLog, [id |-> id, held |-> DOMAIN rows])
        /\ req' = [req EXCEPT ![p].pc = "insert_select", ![p].lastID = id]
  /\ UNCHANGED <<client, impl, engine, deleted, left, crashed, applied,
                 lastTog>>

\* createBook: SELECT * FROM books WHERE id = lastID, resolve(mapRowToBook(row));
\* mapRowToBook throws inside the driver's callback when the row is gone
RawInsertSelect(p) ==
  /\ At(p, "insert_select")
  /\ IF HasRow(rows, JsInt(req[p].lastID))
     THEN /\ req' = [req EXCEPT ![p] =
                       Respond(@, 201, MapRowToBook(SelectById(rows, JsInt(@.lastID))))]
          /\ UNCHANGED crashed
     ELSE /\ crashed' = TRUE
          /\ UNCHANGED req
  /\ UNCHANGED <<client, impl, engine, deleted, idLog, left, rows, seq, now,
                 applied, lastTog>>

\* toggleBookStatus: the UPDATE with the CASE expression; null when no row changed
RawToggleUpdate(p) ==
  /\ At(p, "toggle_update")
  /\ rows' = SqlToggle(rows, req[p].id)
  /\ IF Changes(rows, req[p].id) = 0
     THEN /\ req' = [req EXCEPT ![p] = Respond(@, 404, NoBook)]
          /\ UNCHANGED applied
     ELSE /\ req' = [req EXCEPT ![p].pc = "select",
                                ![p].before = rows[req[p].id.n].status]
          /\ applied' = [applied EXCEPT ![req[p].id.n] = ~@]
  /\ UNCHANGED <<client, impl, engine, deleted, idLog, left, seq, now,
                 crashed, lastTog>>

\* updateBookRating: the UPDATE; null when no row changed
RawRateUpdate(p) ==
  /\ At(p, "rate_update")
  /\ rows' = SqlSetRating(rows, req[p].id, req[p].rating)
  /\ IF Changes(rows, req[p].id) = 0
     THEN req' = [req EXCEPT ![p] = Respond(@, 404, NoBook)]
     ELSE req' = [Rated(p) EXCEPT ![p].pc = "select"]
  /\ UNCHANGED <<client, impl, engine, deleted, idLog, left, seq, now,
                 crashed, applied, lastTog>>

\* toggleBookStatus, updateBookRating: the read-back, resolve(row ? mapRowToBook(row) : null)
RawSelect(p) ==
  /\ At(p, "select")
  /\ IF HasRow(rows, req[p].id)
     THEN req' = [req EXCEPT ![p] =
                    Respond(@, 200, MapRowToBook(SelectById(rows, @.id)))]
     ELSE req' = [req EXCEPT ![p] = Respond(@, 404, NoBook)]
  /\ UNCHANGED <<client, impl, engine, deleted, idLog, left, rows, seq, now,
                 crashed, applied, lastTog>>

\* deleteBook: DELETE, resolve(this.changes > 0)
RawDelete(p) ==
  /\ At(p, "delete")
  /\ rows' = SqlDelete(rows, req[p].id)
  /\ req' = [req EXCEPT ![p] =
               Respond(@, IF Changes(rows, @.id) > 0 THEN 204 ELSE 404, NoBook)]
  /\ deleted' = IF Changes(rows, req[p].id) > 0 THEN deleted \cup {req[p].id.n}
                ELSE deleted
  /\ UNCHANGED <<client, impl, engine, idLog, left, seq, now, crashed,
                 applied, lastTog>>

\* ------------------------------------------------------ Sequelize ORM store
\* createBook: Book.create inserts and returns the instance it built
\* (createdAt defaults to DataTypes.NOW); there is no read-back
OrmCreate(p) ==
  /\ At(p, "orm_create")
  /\ now' \in {now, now + 1}
  /\ LET id == NextRowId(seq, rows)
         t == SqlInsert(rows, id, OrmCreateValue(CreateArg(req[p].title)),
                        OrmCreateValue(CreateArg(req[p].author)), now')
     IN /\ rows' = t
        /\ seq' = id
        /\ idLog' = Append(idLog, [id |-> id, held |-> DOMAIN rows])
        /\ req' = [req EXCEPT ![p] = [Respond(@, 201, OrmToBook(t[id])) EXCEPT !.lastID = id]]
  /\ UNCHANGED <<client, impl, engine, deleted, left, crashed, applied,
                 lastTog>>

\* toggleBookStatus, updateBookRating, deleteBook: Book.findByPk(id), null/false
\* when there is no such row
OrmFind(p) ==
  /\ At(p, "find")
  /\ IF HasRow(rows, req[p].id)
     THEN req' = [req EXCEPT ![p].inst = SelectById(rows, req[p].id),
                             ![p].pc = CASE req[p].kind = "toggle" -> "orm_toggle"
                                         [] req[p].kind = "rate" -> "orm_rate"
                                         [] OTHER -> "orm_destroy"]
     ELSE req' = [req EXCEPT ![p] = Respond(@, 404, NoBook)]
  /\ UNCHANGED <<client, impl, engine, deleted, idLog, left, rows, seq, now,
                 crashed, applied, lastTog>>

\* toggleBookStatus: newStatus from the instance that was found, book.update,
\* and the instance is returned
OrmToggleUpdate(p) ==
  /\ At(p, "orm_toggle")
  /\ LET id == req[p].id
         newStatus == NewStatus(req[p].inst.status)
     IN /\ rows' = SqlSetStatus(rows, id, newStatus)
        /\ req' = [req EXCEPT ![p] =
                     [Respond(@, 200, OrmToBook([@.inst EXCEPT !.status = newStatus]))
                        EXCEPT !.before = SelectById(rows, id).status]]
        /\ applied' = IF HasRow(rows, id) THEN [applied EXCEPT ![id.n] = ~@]
                      ELSE applied
  /\ UNCHANGED <<client, impl, engine, deleted, idLog, left, seq, now,
                 crashed, lastTog>>

\* updateBookRating: book.update({ rating }) and the instance is returned. An
\* update that changes no attribute of the instance may send no UPDATE at all.
OrmRateUpdate(p) ==
  /\ At(p, "orm_rate")
  /\ \E sent \in BOOLEAN :
       /\ ~sent => req[p].inst.rating = req[p].rating
       /\ rows' = IF sent THEN SqlSetRating(rows, req[p].id, req[p].rating) ELSE rows
       /\ req' = [(IF sent /\ HasRow(rows, req[p].id) THEN Rated(p) ELSE req) EXCEPT ![p] =
                    Respond(@, 200, OrmToBook([@.inst EXCEPT !.rating = req[p].rating]))]
  /\ UNCHANGED <<client, impl, engine, deleted, idLog, left, seq, now,
                 crashed, applied, lastTog>>

\* deleteBook: book.destroy() and true
OrmDestroy(p) ==
  /\ At(p, "orm_destroy")
  /\ rows' = SqlDelete(rows, req[p].id)
  /\ req' = [req EXCEPT ![p] = Respond(@, 204, NoBook)]
  /\ deleted' = deleted \cup {req[p].id.n}
  /\ UNCHANGED <<client, impl, engine, idLog, left, seq, now, crashed,
                 applied, lastTog>>

\* ---------------------------------------------------------------- the rest
\* the client has the response; the handler is free again
Finish(p) ==
  /\ At(p, "done")
  /\ req' = [req EXCEPT ![p] = Idle]
  /\ lastTog' =
       IF req[p].kind \in {"toggle", "rate", "delete"} /\ req[p].id.k = "int"
            /\ req[p].id.n \in BookIds
       THEN [lastTog EXCEPT ![req[p].id.n] =
               IF req[p].kind = "toggle" /\ req[p].code = 200 /\ ~req[p].dirty
               THEN req[p].before ELSE "NONE"]
       ELSE lastTog
  /\ UNCHANGED <<impl, engine, deleted, idLog, left, rows, seq, now, crashed,
                 applied>>

Next ==
  \/ \E p \in Procs : StartList(p) /\ UNCHANGED client
  \/ \E p \in Procs, body \in CreateBodies : StartCreate(p, body) /\ UNCHANGED client
  \/ \E p \in Procs, idp \in IdParams : StartToggle(p, idp) /\ UNCHANGED client
  \/ \E p \in Procs, in \in RateInputs : StartRate(p, in[1], in[2]) /\ UNCHANGED client
  \/ \E p \in Procs, idp \in IdParams : StartDelete(p, idp) /\ UNCHANGED client
  \/ \E p \in Procs : ListSelect(p)
  \/ \E p \in Procs : RawInsert(p)
  \/ \E p \in Procs : RawInsertSelect(p)
  \/ \E p \in Procs : RawToggleUpdate(p)
  \/ \E p \in Procs : RawRateUpdate(p)
  \/ \E p \in Procs : RawSelect(p)
  \/ \E p \in Procs : RawDelete(p)
  \/ \E p \in Procs : OrmCreate(p)
  \/ \E p \in Procs : OrmFind(p)
  \/ \E p \in Procs : OrmToggleUpdate(p)
  \/ \E p \in Procs : OrmRateUpdate(p)
  \/ \E p \in Procs : OrmDestroy(p)
  \/ \E p \in Procs : Finish(p) /\ UNCHANGED client

Spec == Init /\ [][Next]_vars

\* -------------------------------------------------------- storage faults
\* the storage engine starts to fail (disk, connection) and recovers
EngineFails ==
  /\ ~crashed
  /\ engine = "ok"
  /\ engine' = "failed"
  /\ UNCHANGED <<client, impl, deleted, idLog, left, rows, seq, now, req, crashed,
                 applied,
                 lastTog>>
EngineRecovers ==
  /\ ~crashed
  /\ engine = "failed"
  /\ engine' = "ok"
  /\ UNCHANGED <<client, impl, deleted, idLog, left, rows, seq, now, req, crashed,
                 applied,
                 lastTog>>

\* a route that answers a store fault as if the book were not found
FaultAsNotFound(kind) == IF kind \in {"toggle", "rate", "delete"} THEN 404 ELSE 500
\* catch (error) { res.status(500).json({ message }) }
FaultCode(kind) == 500

\* The storage call handler p is at fails: the driver hands err to the callback
\* (the ORM call throws), the store rejects, and the route's catch answers.
StorageFault(p) ==
  /\ ~crashed
  /\ engine = "failed"
  /\ req[p].pc \notin {"idle", "done"}
  /\ \A q \in Procs : req[q].pc # "done"
  /\ req' = [req EXCEPT ![p] = Respond(@, FaultCode(@.kind), NoBook)]
  /\ UNCHANGED <<client, impl, engine, deleted, idLog, left, rows, seq, now, crashed,
                 applied, lastTog>>

NextFault ==
  \/ Next
  \/ EngineFails
  \/ EngineRecovers
  \/ \E p \in Procs : StorageFault(p)

SpecFault == Init /\ [][NextFault]_vars

\* ------------------------------------------------------------- the client
\* One client (the React component App) is the only source of requests. A
\* response travels on its own connection: the responses the server has sent
\* reach the client in any order. Two responses with the same content count
\* as one; applying such a response twice gives the same list as applying it
\* once.
server ==
  <<impl, rows, seq, now, req, left, crashed, applied, lastTog, idLog, deleted,
    engine>>

\* the messages of setError
ErrRequired == "title and author required"
ErrFetch == "fetch failed"
ErrAdd == "add failed"
ErrToggle == "toggle failed"
ErrRate == "rate failed"
ErrDelete == "delete failed"
\* the message of the TypeError a rejected fetch throws
ErrNetwork == "Failed to fetch"
\* in place of a status code: the fetch rejected, there is no response
NetworkFailure == 0

\* res.ok
Ok(code) == code >= 200 /\ code <= 299

\* The table may hold a book from an earlier session; the component has
\* rendered once and its mount effect has not run yet.
InitClient ==
  /\ impl \in {"raw", "orm"}
  /\ \E n \in {0, 1} :
       /\ rows = [i \in 1..n |-> NewRow(i, <<"a">>, <<"a">>, 0)]
       /\ seq = n
       /\ idLog = [i \in 1..n |-> [id |-> i, held |-> 1..(i - 1)]]
  /\ now = 0
  /\ req = [p \in Procs |-> Idle]
  /\ left = MaxRequests
  /\ crashed = FALSE
  /\ applied = [i \in BookIds |-> FALSE]
  /\ lastTog = [i \in BookIds |-> "NONE"]
  /\ deleted = {}
  /\ engine = "ok"
  /\ books = <<>>
  /\ error = ""
  /\ loading = TRUE
  /\ mounted = FALSE
  /\ net = {}
  /\ highlightedId = null
  /\ toast = NoToast
  /\ own = {}

\* useEffect(() => { fetchBooks() }, []): setLoading(true), fetch(API_BASE)
FetchBooks ==
  /\ ~mounted
  /\ mounted' = TRUE
  /\ loading' = TRUE
  /\ \E p \in Procs : StartList(p) /\ own' = own \cup {p}
  /\ UNCHANGED <<books, error, net, page>>

\* a check of the form fields as they were typed
ClientValidUntrimmed(title, author) == ~(title = <<>> \/ author = <<>>)
\* if (!trimmedTitle || !trimmedAuthor): the fields are checked after trim()
ClientValid(title, author) == ~(Trim(title) = <<>> \/ Trim(author) = <<>>)

\* handleAdd with the form fields title and author: setError(''), the
\* validation, and the POST of the trimmed fields
HandleAdd(title, author) ==
  /\ mounted
  /\ IF ClientValid(title, author)
     THEN /\ error' = ""
          /\ \E p \in Procs :
               /\ StartCreate(p, [title |-> Trim(title), author |-> Trim(author)])
               /\ own' = own \cup {p}
          /\ UNCHANGED <<books, loading, mounted, net, page>>
     ELSE /\ error' = ErrRequired
          /\ UNCHANGED <<server, books, loading, mounted, net, page, own>>

\* the card of a book of the local list, with its buttons, is on the page
Shown(id) == \E i \in DOMAIN books : books[i].id = id

\* handleToggle(book.id)
HandleToggle(id) ==
  /\ mounted
  /\ Shown(id)
  /\ \E p \in Procs : StartToggle(p, ToString(id)) /\ own' = own \cup {p}
  /\ UNCHANGED <<books, error, loading, mounted, net, page>>

\* handleRate(book.id, star) for a star of 1..5
HandleRate(id, star) ==
  /\ mounted
  /\ Shown(id)
  /\ \E p \in Procs :
       /\ StartRate(p, ToString(id), [t |-> "number", v |-> JsInt(star)])
       /\ own' = own \cup {p}
  /\ UNCHANGED <<books, error, loading, mounted, net, page>>

\* handleDelete(book.id)
HandleDelete(id) ==
  /\ mounted
  /\ Shown(id)
  /\ \E p \in Procs : StartDelete(p, ToString(id)) /\ own' = own \cup {p}
  /\ UNCHANGED <<books, error, loading, mounted, net, page>>

\* what the client sees of the answered request r
Response(r) ==
  [kind |-> r.kind, id |-> r.id, code |-> r.code, book |-> r.book,
   list |-> r.list]

\* the response of handler p leaves the server for the client
Reply(p) ==
  /\ p \in own
  /\ Finish(p)
  /\ net' = net \cup {Response(req[p])}
  /\ own' = own \ {p}
  /\ UNCHANGED <<books, error, loading, mounted, page>>

\* a replacement that adds the book when no entry has the id
ReplaceByIdOrAppend(prev, id, updated) ==
  IF \E i \in DOMAIN prev : prev[i].id = id
  THEN [i \in DOMAIN prev |-> IF prev[i].id = id THEN updated ELSE prev[i]]
  ELSE Append(prev, updated)
\* prev.map((b) => (b.id === id ? updated : b))
ReplaceById(prev, id, updated) ==
  [i \in DOMAIN prev |-> IF prev[i].id = id THEN updated ELSE prev[i]]
\* a filter that keeps every entry
RemoveByIdKeepsAll(prev, id) == prev
\* prev.filter((b) => b.id !== id)
RemoveById(prev, id) == SelectSeq(prev, LAMBDA b : b.id # id)

\* catch (err) { setError(err?.message || ...) }: the message of the Error
\* thrown for a response that is not ok, or of the error fetch rejected with
Caught(m, message) == IF m.code = NetworkFailure THEN ErrNetwork ELSE message

\* The response m arrives, or the fetch rejects: the handler that awaits it
\* continues after its `await fetch(...)`.
Receive(m) ==
  /\ m \in net
  /\ net' = net \ {m}
  /\ CASE m.kind = "list" ->
            /\ IF Ok(m.code) THEN books' = m.list /\ error' = error
               ELSE books' = books /\ error' = Caught(m, ErrFetch)
            /\ loading' = FALSE
       [] m.kind = "create" ->
            /\ IF Ok(m.code) THEN books' = <<m.book>> \o books /\ error' = error
               ELSE books' = books /\ error' = Caught(m, ErrAdd)
            /\ loading' = loading
       [] m.kind = "delete" ->
            /\ IF Ok(m.code) \/ m.code = 204
               THEN books' = RemoveById(books, m.id.n) /\ error' = error
               ELSE books' = books /\ error' = Caught(m, ErrDelete)
            /\ loading' = loading
       [] OTHER ->
            /\ IF Ok(m.code)
               THEN books' = ReplaceById(books, m.id.n, m.book) /\ error' = error
               ELSE /\ books' = books
                    /\ error' = Caught(m, IF m.kind = "toggle" THEN ErrToggle
                                                               ELSE ErrRate)
            /\ loading' = loading
  /\ UNCHANGED <<server, mounted, page, own>>

NextClient ==
  \/ FetchBooks
  \/ \E title \in Strs, author \in Strs : HandleAdd(title, author)
  \/ \E id \in BookIds : HandleToggle(id)
  \/ \E id \in BookIds, star \in 1..5 : HandleRate(id, star)
  \/ \E id \in BookIds : HandleDelete(id)
  \/ \E p \in Procs : ListSelect(p)
  \/ \E p \in Procs : RawInsert(p)
  \/ \E p \in Procs : RawInsertSelect(p)
  \/ \E p \in Procs : RawToggleUpdate(p)
  \/ \E p \in Procs : RawRateUpdate(p)
  \/ \E p \in Procs : RawSelect(p)
  \/ \E p \in Procs : RawDelete(p)
  \/ \E p \in Procs : OrmCreate(p)
  \/ \E p \in Procs : OrmFind(p)
  \/ \E p \in Procs : OrmToggleUpdate(p)
  \/ \E p \in Procs : OrmRateUpdate(p)
  \/ \E p \in Procs : OrmDestroy(p)
  \/ \E p \in Procs : Reply(p)
  \/ \E m \in net : Receive(m)

SpecClient == InitClient /\ [][NextClient]_vars

\* ---------------------------------------------- the page among other clients
\* every book of the list as a candidate of the pick
EveryBook(prev) == DOMAIN prev
\* books.filter((b) => b.status === 'UNREAD'), as positions of the list
Unread(prev) == {i \in DOMAIN prev : prev[i].status = "UNREAD"}

\* a pick that fetches the list again before it answers
HandleSurpriseRefetch ==
  /\ mounted
  /\ \E p \in Procs : StartList(p) /\ own' = own \cup {p}
  /\ IF Unread(books) = {}
     THEN /\ toast' = NothingUnread
          /\ highlightedId' = highlightedId
     ELSE \E i \in Unread(books) :
            /\ highlightedId' = books[i].id
            /\ toast' = PerfectRead(books[i].title)
  /\ UNCHANGED <<books, error, loading, mounted, net>>

\* handleSurprise: the notice when no book is unread, else a pick among the
\* unread books (Math.random), its highlight and its notice
HandleSurprise ==
  /\ mounted
  /\ IF Unread(books) = {}
     THEN /\ toast' = NothingUnread
          /\ highlightedId' = highlightedId
     ELSE \E i \in Unread(books) :
            /\ highlightedId' = books[i].id
            /\ toast' = PerfectRead(books[i].title)
  /\ UNCHANGED <<server, books, error, loading, mounted, net, own>>

\* setTimeout(() => setToast(''), ...)
ClearToast ==
  /\ toast # NoToast
  /\ toast' = NoToast
  /\ UNCHANGED <<server, books, error, loading, mounted, net, highlightedId, own>>

\* setTimeout(() => setHighlightedId(null), 2000)
ClearHighlight ==
  /\ highlightedId # null
  /\ highlightedId' = null
  /\ UNCHANGED <<server, books, error, loading, mounted, net, toast, own>>

\* Another client (another page on the same server) toggles and deletes
\* books, as a page does; its responses go to it.
OtherToggle(id) == \E p \in Procs : StartToggle(p, ToString(id)) /\ UNCHANGED client
OtherDelete(id) == \E p \in Procs : StartDelete(p, ToString(id)) /\ UNCHANGED client
\* the response of handler p leaves the server for the other client
OtherReply(p) ==
  /\ p \notin own
  /\ Finish(p)
  /\ UNCHANGED client

NextPage ==
  \/ NextClient
  \/ HandleSurprise
  \/ ClearToast
  \/ ClearHighlight
  \/ \E id \in BookIds : OtherToggle(id)
  \/ \E id \in BookIds : OtherDelete(id)
  \/ \E p \in Procs : OtherReply(p)

SpecPage == InitClient /\ [][NextPage]_vars

\* ------------------------------------- the client on an unreliable system
\* The connection of the request handler p works on breaks: the fetch of the
\* client rejects, the server goes on with the request and its response
\* reaches nobody.
NetworkError(p) ==
  /\ p \in own
  /\ own' = own \ {p}
  /\ net' = net \cup {[kind |-> req[p].kind, id |-> req[p].id,
                        code |-> NetworkFailure, book |-> NoBook, list |-> <<>>]}
  /\ UNCHANGED <<server, books, error, loading, mounted, page>>

NextClientFault ==
  \/ NextClient
  \/ EngineFails
  \/ EngineRecovers
  \/ \E p \in Procs : StorageFault(p)
  \/ \E p \in Procs : NetworkError(p)
  \/ \E p \in Procs : OtherReply(p)

SpecClientFault == InitClient /\ [][NextClientFault]_vars

\* ------------------------------------------------------------ properties
\* a title or author that is missing or empty after trimming
Blank(v) == v = undefined \/ Trim(v) = <<>>
\* the request of handler p has been answered with `code`
Answered(p, code) == req[p].pc = "done" /\ req[p].code = code
\* "READ" <-> "UNREAD"
Flipped(status) == IF status = "READ" THEN "UNREAD" ELSE "READ"

\* C1: no toggle is lost. Every book is created UNREAD, so after the updates
\* of n toggle requests have been applied to a row, its status is UNREAD when
\* n is even and READ when n is odd, under any interleaving.
C1_ToggleAtomic ==
  \A i \in DOMAIN rows :
    rows[i].status = IF applied[i] THEN "READ" ELSE "UNREAD"

\* the step in which the create request of handler p inserts its row
InsertStep(p) ==
  /\ req[p].pc \in {"insert", "orm_create"}
  /\ req'[p].pc # req[p].pc
\* the positions of the list `after` whose entry is not in the list `before`
NewEntries(before, after) ==
  {i \in DOMAIN after : \A j \in DOMAIN before : after[i] # before[j]}
\* what create followed by listAll shows, for the title and author expected
CreateThenList(p, title, author) ==
  \A lb \in ListOrders(rows), la \in ListOrders(rows') :
    LET before == ListOf(impl, rows, lb)
        after == ListOf(impl, rows', la)
        new == NewEntries(before, after)
    IN /\ Cardinality(new) = 1
       /\ \A i \in new :
            /\ after[i].status = "UNREAD"
            /\ after[i].rating = JsInt(0)
            /\ after[i].title = title
            /\ after[i].author = author
            /\ \A j \in DOMAIN after : j # i => after[j].id # after[i].id

\* C2 (as amended): a create whose title and author are not blank adds exactly
\* one entry to what listAll returns; the entry has status UNREAD, rating 0,
\* the given title and author with the surrounding whitespace trimmed, and an
\* id that no other row has.
C2_CreateAddsOneEntry ==
  [][\A p \in Procs :
       InsertStep(p) => CreateThenList(p, Trim(req[p].title), Trim(req[p].author))]_vars

\* C2 (as stated): ... the entry has the given title and author.
C2_AsStated ==
  [][\A p \in Procs :
       InsertStep(p) => CreateThenList(p, req[p].title, req[p].author)]_vars

\* a create whose title has surrounding whitespace has been answered 201 and
\* the table holds another row besides the new one
C2_Witness ==
  \E p \in Procs :
    /\ req[p].kind = "create" /\ Answered(p, 201)
    /\ req[p].title # Trim(req[p].title)
    /\ Cardinality(DOMAIN rows) >= 2
    /\ req[p].lastID \in DOMAIN rows

\* C3: ids are assigned in strictly increasing order (so they are unique and
\* the id of a deleted book is never assigned again), and every row is stored
\* under the id it was given.
C3_IdsIncreaseNeverReused ==
  /\ \A j, k \in DOMAIN idLog : j < k => idLog[j].id < idLog[k].id
  /\ \A i \in DOMAIN rows : rows[i].id = i /\ \E k \in DOMAIN idLog : idLog[k].id = i

\* an id has been assigned after the row with the highest id so far was deleted
C3_Witness ==
  \E k \in DOMAIN idLog :
    /\ k > 1
    /\ idLog[k - 1].id \notin idLog[k].held
    /\ idLog[k].id \in DOMAIN rows

\* C4: a create whose title or author is missing or blank is answered 400
\* without reaching the store, and no row has a blank title or author.
C4_BlankCreateRejected ==
  /\ \A p \in Procs :
       (req[p].kind = "create" /\ (Blank(req[p].title) \/ Blank(req[p].author)))
         => Answered(p, 400)
  /\ \A i \in DOMAIN rows : ~Blank(rows[i].title) /\ ~Blank(rows[i].author)

\* the rating is an integer in 1..5
GoodRating(x) == IsInteger(x) /\ x.n >= 1 /\ x.n <= 5

\* C5: a rating request whose rating is not an integer in 1..5 is answered 400
\* without reaching the store.
C5_BadRatingRejected ==
  \A p \in Procs :
    (req[p].kind = "rate" /\ ~GoodRating(req[p].rating)) => Answered(p, 400)

\* C6: a rating request for an existing id with a rating r in 1..5 returns a
\* Book with rating r, and the row then holds rating r, when no other rating
\* update of that id was applied while the request was handled.
C6_RatingReadBack ==
  \A p \in Procs :
    (req[p].kind = "rate" /\ req[p].pc = "done" /\ GoodRating(req[p].rating)
       /\ req[p].existed /\ ~req[p].hit)
      => /\ req[p].code \in {200, 404}
         /\ req[p].code = 200 => req[p].book.rating = req[p].rating
         /\ HasRow(rows, req[p].id) =>
              /\ req[p].code = 200
              /\ rows[req[p].id.n].rating = req[p].rating

\* a rating request has returned a rating in 1..5 that differs from the
\* rating the row had before
C6_Witness ==
  \E p \in Procs :
    /\ req[p].kind = "rate" /\ Answered(p, 200) /\ ~req[p].hit
    /\ HasRow(rows, req[p].id)
    /\ req[p].book.rating = JsInt(4)

\* C7: the rating of every row is an integer in 0..5.
C7_RatingInRange ==
  \A i \in DOMAIN rows :
    IsInteger(rows[i].rating) /\ rows[i].rating.n >= 0 /\ rows[i].rating.n <= 5

\* C8: a toggle, rating or delete request whose id is not an integer is
\* answered 400 without reaching the store.
C8_NonIntegerIdRejected ==
  \A p \in Procs :
    (req[p].kind \in {"toggle", "rate", "delete"} /\ ~IsInteger(req[p].id))
      => Answered(p, 400)

\* C9: a toggle of an existing id that no other request for the id overlaps
\* flips the status (stored and returned); when the request before it on that
\* id was such a toggle too, the status is again what it was before the two.
C9_ToggleTwiceRestores ==
  \A p \in Procs :
    (req[p].kind = "toggle" /\ req[p].pc = "done" /\ req[p].existed /\ ~req[p].dirty)
      => /\ req[p].code = 200
         /\ HasRow(rows, req[p].id)
         /\ req[p].book.status = Flipped(req[p].before)
         /\ rows[req[p].id.n].status = Flipped(req[p].before)
         /\ req[p].first # "NONE" =>
              /\ req[p].book.status = req[p].first
              /\ rows[req[p].id.n].status = req[p].first

\* the second of two toggles in sequence has been answered
C9_Witness ==
  \E p \in Procs :
    /\ req[p].kind = "toggle" /\ Answered(p, 200) /\ ~req[p].dirty
    /\ req[p].first = "UNREAD"
    /\ req[p].book.status = "UNREAD"

\* C10: the Book a toggle returns has the flipped value of the status the row
\* had immediately before the update of that request, under any interleaving.
C10_ToggleReturnsPostUpdate ==
  \A p \in Procs :
    (req[p].kind = "toggle" /\ Answered(p, 200) /\ req[p].before # "NONE")
      => req[p].book.status = Flipped(req[p].before)

\* the step in which the delete request of handler p is answered
DeleteAnswer(p) ==
  /\ req[p].kind = "delete"
  /\ req[p].pc \in {"delete", "find", "orm_destroy"}
  /\ req'[p].pc = "done"

\* C11: a delete that no other request for the id overlaps is answered 204
\* exactly when a row with the id existed, and then that row and no other is
\* removed; it is answered 404 when no row matched, and then the table is as
\* it was. A delete issued after a delete of the same id was answered 204 is
\* answered 404, without an error, and leaves the table unchanged.
C11_DeleteReportsRemoval ==
  [][\A p \in Procs :
       DeleteAnswer(p) =>
         /\ req'[p].code \in {204, 404}
         /\ ~crashed'
         /\ ~req[p].dirty =>
              /\ req'[p].code = 204 <=> HasRow(rows, req[p].id)
              /\ req'[p].code = 204 =>
                   /\ DOMAIN rows' = DOMAIN rows \ {req[p].id.n}
                   /\ \A i \in DOMAIN rows' : rows'[i] = rows[i]
         /\ req'[p].code = 404 => rows' = rows
         /\ req[p].gone # {} => req'[p].code = 404 /\ rows' = rows]_vars

\* a delete of an id whose delete had been answered 204 has been answered 404
C11_Witness ==
  \E p \in Procs :
    /\ req[p].kind = "delete" /\ Answered(p, 404)
    /\ req[p].gone # {} /\ ~req[p].dirty

C13_ListAllSorted ==
  \A p \in Procs :
    (req[p].kind = "list" /\ req[p].pc = "done")
      => LET l == req[p].list
         IN /\ req[p].code = 200
            /\ Len(l) = Cardinality(DOMAIN rows)
            /\ \A i \in DOMAIN rows :
                 /\ Cardinality({j \in DOMAIN l : l[j].id = i}) = 1
                 /\ \A j \in DOMAIN l :
                      l[j].id = i =>
                        /\ l[j].title = rows[i].title
                        /\ l[j].author = rows[i].author
                        /\ l[j].status = rows[i].status
                        /\ l[j].rating = rows[i].rating
                        /\ l[j].createdAt.t = rows[i].createdAt
            /\ \A i, j \in DOMAIN l :
                 i < j => l[i].createdAt.t >= l[j].createdAt.t

\* a list of two books created at different times has been returned
C13_Witness ==
  \E p \in Procs :
    /\ req[p].kind = "list" /\ Answered(p, 200)
    /\ Len(req[p].list) = 2
    /\ req[p].list[1].createdAt.t > req[p].list[2].createdAt.t

\* the step in which the toggle, rating or delete request of handler p, which
\* passed validation, is answered
IdAnswer(p) ==
  /\ req[p].kind \in {"toggle", "rate", "delete"}
  /\ req[p].pc \notin {"idle", "done"}
  /\ req'[p].pc = "done"

\* C14: a toggle, rating or delete request that reaches the store is answered
\* 500 exactly when the storage call fails, whether or not the row exists; it
\* is answered 404 only by a storage call that matched no row; a storage call
\* that looks the row up and matches none is answered 404; and no exception
\* escapes.
C14_NotFoundIsNotFault ==
  [][\A p \in Procs :
       IdAnswer(p) =>
         /\ req'[p].code \in {200, 204, 404, 500}
         /\ req'[p].code = 500 <=> engine = "failed"
         /\ req'[p].code = 404 => ~HasRow(rows, req[p].id)
         /\ (/\ engine = "ok"
             /\ ~HasRow(rows, req[p].id)
             /\ req[p].pc \in {"find", "toggle_update", "rate_update", "delete",
                               "select"})
              => req'[p].code = 404
         /\ ~crashed']_vars

\* a request for an id that matches no row has been answered 500 because the
\* storage call failed
C14_Witness ==
  \E p \in Procs :
    /\ req[p].kind \in {"toggle", "rate", "delete"} /\ Answered(p, 500)
    /\ IsInteger(req[p].id) /\ ~HasRow(rows, req[p].id)

\* the step in which the toggle request of handler p updates the row
ToggleStep(p) ==
  /\ req[p].kind = "toggle"
  /\ req[p].pc \in {"toggle_update", "orm_toggle"}
  /\ req'[p].pc # req[p].pc

\* C15: the status of every row is READ or UNREAD, and the status of a row
\* changes only in the update step of a toggle request for the id of the row.
C15_StatusOnlyToggled ==
  [][\A i \in DOMAIN rows' :
       /\ rows'[i].status \in {"READ", "UNREAD"}
       /\ (i \in DOMAIN rows /\ rows'[i].status # rows[i].status)
            => \E p \in Procs : ToggleStep(p) /\ req[p].id = JsInt(i)]_vars

\* a book that was toggled to READ has been rated
C15_Witness ==
  \E i \in DOMAIN rows :
    /\ rows[i].status = "READ"
    /\ rows[i].rating # JsInt(0)
    /\ \A p \in Procs : req[p].pc = "idle"

\* the step in which the rating request of handler p updates the row
RateStep(p) ==
  /\ req[p].kind = "rate"
  /\ req[p].pc \in {"rate_update", "orm_rate"}
  /\ req'[p].pc # req[p].pc

\* C16: no step writes rating 0 to an existing row: the rating of a row
\* changes only in the update step of a rating request, the new rating is not
\* 0, and a rating that is not 0 never becomes 0; a rating request with
\* rating 0 is answered 400 and reaches no store.
C16_RatingZeroOnlyAtCreation ==
  [][/\ \A i \in DOMAIN rows \cap DOMAIN rows' :
          /\ rows[i].rating # JsInt(0) => rows'[i].rating # JsInt(0)
          /\ rows'[i].rating # rows[i].rating =>
               /\ rows'[i].rating # JsInt(0)
               /\ \E p \in Procs : RateStep(p) /\ req[p].id = JsInt(i)
     /\ \A p \in Procs :
          (req'[p].kind = "rate" /\ req'[p].rating = JsInt(0))
            => Answered(p, 400)']_vars

\* a rating request with rating 0 has been rejected for a book that is rated
C16_Witness ==
  \E p \in Procs :
    /\ req[p].kind = "rate" /\ Answered(p, 400)
    /\ req[p].rating = JsInt(0)
    /\ HasRow(rows, req[p].id)
    /\ rows[req[p].id.n].rating # JsInt(0)

\* C17: the two stores return the same Book for the same row: the Book a
\* create returns is the value the raw store's mapRowToBook gives for the new
\* row and also the value the ORM store builds for it.
C17_StoresReturnSameBook ==
  \A p \in Procs :
    (req[p].kind = "create" /\ Answered(p, 201)
       /\ HasRow(rows, JsInt(req[p].lastID)))
      => /\ req[p].book = MapRowToBook(rows[req[p].lastID])
         /\ req[p].book = OrmToBook(rows[req[p].lastID])

\* every request the client has issued has been answered and the answer has
\* been applied
Quiescent ==
  /\ mounted
  /\ ~crashed
  /\ net = {}
  /\ \A p \in Procs : req[p].pc = "idle"
\* the Book the server returns for a row
BookOf(row) == IF impl = "raw" THEN MapRowToBook(row) ELSE OrmToBook(row)

\* C18: when every request of the client has been answered and applied, the
\* local list holds exactly the ids of the rows of the table, and every local
\* entry equals the Book of its row.
C18_ClientMirrorsServer ==
  Quiescent =>
    /\ {books[i].id : i \in DOMAIN books} = DOMAIN rows
    /\ \A i \in DOMAIN books :
         books[i].id \in DOMAIN rows => books[i] = BookOf(rows[books[i].id])

\* C19: the local list is ordered newest first: createdAt never increases
\* along the list, also after creates that were in flight at once.
C19_PrependKeepsNewestFirst ==
  \A i, j \in DOMAIN books :
    i < j => books[i].createdAt.t >= books[j].createdAt.t

\* C20: an add whose title or author is empty after trimming sends no
\* request, leaves the local list and the server as they are, and sets the
\* error message.
C20_BlankAddSendsNothing ==
  [][\A title \in Strs, author \in Strs :
       (HandleAdd(title, author) /\ (Trim(title) = <<>> \/ Trim(author) = <<>>))
         => /\ UNCHANGED <<server, books, net>>
            /\ error' = ErrRequired]_vars

\* a blank add has been rejected while the local list shows a book and no
\* request is in flight
C20_Witness ==
  /\ error = ErrRequired
  /\ books # <<>>
  /\ Quiescent

\* C21: a surprise pick highlights only a book that the local list holds with
\* status UNREAD at the moment of the pick, with the notice of that book; when
\* the local list holds no UNREAD book the highlight is left as it is and the
\* notice is 'nothing unread'. The pick changes nothing else.
C21_SurprisePicksUnread ==
  [][/\ (highlightedId' # highlightedId /\ highlightedId' # null)
          => \E i \in DOMAIN books :
               /\ books[i].id = highlightedId'
               /\ books[i].status = "UNREAD"
               /\ toast' = PerfectRead(books[i].title)
     /\ HandleSurprise =>
          /\ UNCHANGED <<server, books, error, net>>
          /\ (\A i \in DOMAIN books : books[i].status # "UNREAD")
               => highlightedId' = highlightedId /\ toast' = NothingUnread
          /\ (\E i \in DOMAIN books : books[i].status = "UNREAD")
               => \E i \in DOMAIN books :
                    /\ books[i].status = "UNREAD"
                    /\ highlightedId' = books[i].id]_vars

\* an UNREAD book is highlighted while the local list also holds a READ book
C21_Witness ==
  \E i, j \in DOMAIN books :
    /\ books[i].id = highlightedId
    /\ books[i].status = "UNREAD"
    /\ books[j].status = "READ"
    /\ toast = PerfectRead(books[i].title)


\* a request that has reached the store and will never be answered: the
\* exception thrown in the driver's callback left its promise unsettled
Abandoned(p) == req[p].pc \notin {"idle", "done"} /\ crashed

\* C22: every request that reaches the store is answered: no request in flight
\* is ever left with a store call that neither resolves nor rejects (as stated)
C22_EveryRequestAnswered == \A p \in Procs : ~Abandoned(p)


\* row a differs from row b in no field other than field f
SameBut(a, b, f) ==
  \A g \in (DOMAIN a \cup DOMAIN b) \ {f} : g \in DOMAIN a \cap DOMAIN b /\ a[g] = b[g]

\* C23: the update step of a toggle changes nothing but the status of the
\* addressed row and the update step of a rating request nothing but its
\* rating: the table keeps its rows, every other row keeps every field, and no
\* step ever changes id, title, author or createdAt of a row that persists.
C23_SingleFieldUpdates ==
  [][/\ \A p \in Procs :
          /\ ToggleStep(p) =>
               /\ DOMAIN rows' = DOMAIN rows
               /\ \A i \in DOMAIN rows :
                    IF JsInt(i) = req[p].id
                    THEN SameBut(rows'[i], rows[i], "status")
                    ELSE rows'[i] = rows[i]
          /\ RateStep(p) =>
               /\ DOMAIN rows' = DOMAIN rows
               /\ \A i \in DOMAIN rows :
                    IF JsInt(i) = req[p].id
                    THEN SameBut(rows'[i], rows[i], "rating")
                    ELSE rows'[i] = rows[i]
     /\ \A i \in DOMAIN rows \cap DOMAIN rows' :
          /\ rows'[i].id = rows[i].id
          /\ rows'[i].title = rows[i].title
          /\ rows'[i].author = rows[i].author
          /\ rows'[i].createdAt = rows[i].createdAt]_vars

\* a toggle has been answered with its row READ beside a second, untouched row
C23_Witness ==
  \E p \in Procs :
    /\ req[p].kind = "toggle" /\ Answered(p, 200)
    /\ HasRow(rows, req[p].id)
    /\ rows[req[p].id.n].status = "READ"
    /\ \E j \in DOMAIN rows : JsInt(j) # req[p].id /\ rows[j].status = "UNREAD"


\* the step in which the response m (or the rejection of the fetch) reaches
\* the handler of the page that awaits it
Received(m) == m \in net /\ net' = net \ {m}

\* C24: when the response to a toggle or a rating request arrives with a
\* success status, every entry of the local list with the id of the request
\* becomes the returned Book (which has that id), every other entry stays, and
\* so do the length and the order: nothing is added when no entry has the id;
\* when it arrives with a failure status, or the fetch rejects, the list is
\* unchanged and the error message is set.
C24_ToggleRateReplaceInPlace ==
  [][\A m \in net :
       (Received(m) /\ m.kind \in {"toggle", "rate"}) =>
         IF Ok(m.code)
         THEN /\ Len(books') = Len(books)
              /\ m.book.id = m.id.n
              /\ \A i \in DOMAIN books :
                   books'[i] = IF books[i].id = m.id.n THEN m.book ELSE books[i]
              /\ (\A i \in DOMAIN books : books[i].id # m.id.n) => books' = books
         ELSE /\ books' = books
              /\ error' \in {ErrToggle, ErrRate, ErrNetwork}]_vars

\* the page has toggled and deleted the one book it listed; both requests
\* succeeded and both responses have been applied: the list is empty
C24_Witness ==
  /\ mounted /\ Quiescent
  /\ left = 0
  /\ books = <<>>
  /\ error = ""
  /\ \E i \in deleted : applied[i]


\* C25: when the response to a delete arrives with status 204, the local
\* list loses the entries with the id of the request and keeps every other
\* entry, in the same order; when it arrives with a failure status (400, 404,
\* 500), or the fetch rejects, the list is unchanged and the error message is
\* set.
C25_DeleteRemovesOnSuccessOnly ==
  [][\A m \in net :
       (Received(m) /\ m.kind = "delete") =>
         IF m.code = 204
         THEN /\ books' = SelectSeq(books, LAMBDA b : b.id # m.id.n)
              /\ \A i \in DOMAIN books' : books'[i].id # m.id.n
         ELSE /\ m.code \in {400, 404, 500, NetworkFailure}
              /\ books' = books
              /\ error' \in {ErrDelete, ErrNetwork}]_vars

\* a delete of a listed book failed on a storage fault: the book is still in
\* the table and in the list, and the page shows the error
C25_Witness ==
  /\ Quiescent
  /\ own = {}
  /\ error = ErrDelete
  /\ deleted = {}
  /\ \E i \in DOMAIN books : books[i].id \in DOMAIN rows


\* C26: a surprise pick (the step that shows its notice) sends no request,
\* awaits no response and reads nothing but the local list: the server, the
\* requests in flight, the responses under way and the list are as before, and
\* a book it highlights is a book of the local list. The book it highlights
\* may therefore be gone from the table, or READ in the table (C26_Witness,
\* C26_ReadOnServer).
C26_SurpriseUsesLocalListOnly ==
  [][(toast' # toast /\ toast' # NoToast) =>
       /\ UNCHANGED <<server, books, error, net, own>>
       /\ highlightedId' # highlightedId =>
            \E i \in DOMAIN books : books[i].id = highlightedId']_vars

\* the page has only fetched the list and awaits nothing; the book it
\* highlights, UNREAD in the local list, has been deleted in the table by the
\* other client
C26_Witness ==
  /\ mounted
  /\ left = MaxRequests - 2
  /\ own = {} /\ net = {}
  /\ highlightedId # null
  /\ highlightedId \in deleted
  /\ highlightedId \notin DOMAIN rows
  /\ \E i \in DOMAIN books :
       /\ books[i].id = highlightedId
       /\ books[i].status = "UNREAD"
       /\ toast = PerfectRead(books[i].title)

\* the same with a toggle of the other client: the highlighted book is READ
\* in the table and UNREAD in the local list
C26_ReadOnServer ==
  /\ mounted
  /\ left = MaxRequests - 2
  /\ own = {} /\ net = {}
  /\ highlightedId \in DOMAIN rows
  /\ rows[highlightedId].status = "READ"
  /\ \E i \in DOMAIN books :
       /\ books[i].id = highlightedId
       /\ books[i].status = "UNREAD"
       /\ toast = PerfectRead(books[i].title)


\* C27: at most one delete of an id is answered 204: a delete is answered 204
\* only when no delete of the same id has been answered 204 before (as stated)
C27_OneDeleteSucceeds ==
  [][\A p \in Procs :
       (DeleteAnswer(p) /\ req'[p].code = 204) => req[p].id.n \notin deleted]_vars


\* C28: no two entries of the local list have the same id (as stated)
C28_NoDuplicateIds ==
  \A i, j \in DOMAIN books : books[i].id = books[j].id => i = j

============================================================================
